---- MODULE Spec2Model ----
(***************************************************************************)
(* The channel cache of get_channel_videos                                 *)
(* (src/knowledge_storm/merlin/youtube.py, lines 38-133).                  *)
(*                                                                         *)
(* The state is the cache file on disk and a record of the last call       *)
(* (its arguments, what the environment answered, what it returned and     *)
(* the file it started from).  One action is one whole call: load the      *)
(* file, derive the date filter, take the cache-hit path or fetch, merge,  *)
(* save, truncate, return.  The remote provider, the file system and the   *)
(* clock are the environment: their answers are drawn with \E.  Calls are  *)
(* sequential: the caller takes the result (Return) before the next call.  *)
(*                                                                         *)
(* A video record carries id and upload_date; title, duration, view_count  *)
(* and description are copied from the provider entry by the same          *)
(* entry.get(field, default) as upload_date and are read nowhere else, so  *)
(* upload_date stands for them as the record's content.                    *)
(***************************************************************************)
EXTENDS Integers, Sequences, FiniteSets, TLC

\* ------------------------------------------------------------------ bounds
MaxKeys  == 2      \* channel urls: 1..MaxKeys
MaxId    == 2      \* video ids of channel 1: 1..MaxId
MaxDate  == 1      \* upload dates (YYYYMMDD, ordered): 1..MaxDate
MaxFetch == 2      \* longest entries list the provider returns
MaxLimit == 1      \* largest limit argument
MaxNow   == 2      \* clock readings datetime.now() can give: 1..MaxNow
MaxCallers   == 2  \* invocations that share the cache file: 1..MaxCallers
MaxVideos == 2     \* videos: ids 1..MaxVideos, one video_url each
MaxText   == 1     \* transcript texts: 1..MaxText
MaxCsv    == 2     \* most urls in one url_csv

\* '' : the default of entry.get('id', '') and entry.get('upload_date', ''),
\* smaller than every date in Python's string order.
EmptyStr == 0

Keys   == 1..MaxKeys
Dates  == 1..MaxDate
Limits == 0..MaxLimit       \* 0 stands for None (and 0): "if limit:" is false
Times  == 1..MaxNow

\* Video ids are assigned by the provider per video: the channels have
\* disjoint ids.  Channel 1 has MaxId videos, every other channel one.
ChannelIds(channel_url) ==
    IF channel_url = 1 THEN 1..MaxId ELSE {MaxId + channel_url - 1}

\* The raw entries the provider can return for a channel: a dict with an id
\* and an upload_date; for channel 1 also without the upload_date (flat
\* extraction often leaves it out), the same video with another content.
Entries(channel_url) ==
    IF channel_url = 1
    THEN [id : ChannelIds(channel_url), upload_date : Dates]
            \cup [id : ChannelIds(channel_url)]
    ELSE [id : ChannelIds(channel_url), upload_date : {MaxDate}]

RECURSIVE SeqsUpTo(_, _)
SeqsUpTo(S, n) ==
    IF n = 0 THEN {<<>>}
    ELSE LET shorter == SeqsUpTo(S, n - 1)
         IN  shorter \cup {Append(s, x) : s \in {t \in shorter : Len(t) = n - 1}, x \in S}

\* What ydl.extract_info answers (line 95): ok = FALSE is every answer that
\* fails "results and 'entries' in results" or raises inside the try;
\* otherwise the entries list, possibly empty.
FetchFailure == [ok |-> FALSE, entries |-> <<>>]
Results(channel_url) ==
    {FetchFailure} \cup
    {[ok |-> TRUE, entries |-> es] : es \in SeqsUpTo(Entries(channel_url), MaxFetch)}

\* How lines 122-126 end: the file is written; open() fails and the file is
\* untouched; open(cache_file, 'w') has truncated the file and json.dump or
\* the flush on close fails.
WriteOutcomes == {"ok", "open_fail", "dump_fail"}

\* ------------------------------------------------------------ the cache file
EmptyCache == [k \in {} |-> 0]
MissingFile == [state |-> "missing", content |-> EmptyCache]
CorruptFile == [state |-> "corrupt", content |-> EmptyCache]
OkFile(cache) == [state |-> "ok", content |-> cache]
\* A file that parses, but not to a dict: the JSON value null, which
\* json.load gives back as None.  No call writes such a file.
NullFile == [state |-> "null", content |-> EmptyCache]

\* file: the channel cache file of get_channel_videos; last: its last call;
\* callers: the invocations sharing it.  transcripts_cache_file:
\* "transcripts_cache.json"; transcriptions_file: "transcriptions.json";
\* tlast: the last call of get_video_info or _summarize.
VARIABLES file, last, callers,
          transcripts_cache_file, transcriptions_file, tlast
vars == <<file, last, callers,
          transcripts_cache_file, transcriptions_file, tlast>>
ytvars == <<transcripts_cache_file, transcriptions_file, tlast>>

\* What a call of get_video_info returns: {} (line 221) or result (line 218).
EmptyDict == [empty |-> TRUE, id |-> EmptyStr, transcript |-> EmptyStr]
ResultDict(video_id, transcript) ==
    [empty |-> FALSE, id |-> video_id, transcript |-> transcript]

NoTranscriptCall ==
    [called |-> FALSE, op |-> "none", video_url |-> 0,
     download_transcript |-> FALSE, values_list |-> <<>>,
     before |-> MissingFile, info |-> [ok |-> FALSE, id |-> EmptyStr],
     text |-> EmptyStr, outcome |-> "ok",
     ret |-> EmptyDict, downloads |-> <<>>, transcribed |-> {},
     wrote |-> FALSE, raised |-> FALSE]

\* No transcript has been asked for: neither file exists.
NoTranscripts ==
    /\ transcripts_cache_file = MissingFile
    /\ transcriptions_file = MissingFile
    /\ tlast = NoTranscriptCall

\* ------------------------------------------------------ pieces of the call
Min(a, b) == IF a <= b THEN a ELSE b
SetMax(S) == CHOOSE x \in S : \A y \in S : y <= x
Range(s) == {s[i] : i \in 1..Len(s)}

\* lines 56-63: a missing file is not opened, a file that does not parse
\* leaves channel_cache = {}
LoadCache(f) == IF f.state = "ok" THEN f.content ELSE EmptyCache

\* The load without its try/except: a file that does not parse ends the call.
LoadRaises_Uncaught(f) == f.state = "corrupt"

\* line 62: "except Exception" keeps a failed load inside the call
LoadRaises(f) == FALSE

\* The date of the last cached record in place of the maximum.
LatestDate_LastRecord(channel_cache, channel_url, fetch_only_new) ==
    IF /\ fetch_only_new
       /\ channel_url \in DOMAIN channel_cache
       /\ channel_cache[channel_url].videos # <<>>
    THEN {channel_cache[channel_url].videos[Len(channel_cache[channel_url].videos)].upload_date}
    ELSE {}

\* lines 65-68: {} is None
LatestDate(channel_cache, channel_url, fetch_only_new) ==
    IF /\ fetch_only_new
       /\ channel_url \in DOMAIN channel_cache
       /\ channel_cache[channel_url].videos # <<>>
    THEN {SetMax({v.upload_date : v \in Range(channel_cache[channel_url].videos)})}
    ELSE {}

\* The cache is read when force_update is set instead of when it is not.
CacheHit_ForceInverted(channel_cache, channel_url, force_update, fetch_only_new) ==
    /\ force_update
    /\ ~fetch_only_new
    /\ channel_url \in DOMAIN channel_cache

\* The cache is read without asking for fetch_only_new.
CacheHit_IgnoresFetchOnlyNew(channel_cache, channel_url, force_update, fetch_only_new) ==
    /\ ~force_update
    /\ channel_url \in DOMAIN channel_cache

\* line 72
CacheHit(channel_cache, channel_url, force_update, fetch_only_new) ==
    /\ ~force_update
    /\ ~fetch_only_new
    /\ channel_url \in DOMAIN channel_cache

\* videos[limit:] in place of videos[:limit]
Truncate_DropFirst(videos, limit) ==
    IF limit # 0 THEN SubSeq(videos, Min(limit, Len(videos)) + 1, Len(videos))
    ELSE videos

\* lines 75-77 and 128-130: videos[:limit] for a positive limit
Truncate(videos, limit) ==
    IF limit # 0 THEN SubSeq(videos, 1, Min(limit, Len(videos))) ELSE videos

\* lines 89-91: the 'dateafter' option; {} is "not set"
DateAfter(fetch_only_new, latest_date) ==
    IF fetch_only_new /\ latest_date # {} /\ latest_date # {EmptyStr}
    THEN latest_date ELSE {}

\* entry.get(field, default)
Get(entry, field, default) ==
    IF field \in DOMAIN entry THEN entry[field] ELSE default

\* lines 97-105
ToVideo(entry) ==
    [id |-> Get(entry, "id", EmptyStr),
     upload_date |-> Get(entry, "upload_date", EmptyStr)]

NewVideos(entries) == [i \in 1..Len(entries) |-> ToVideo(entries[i])]

\* The merge without the filter on existing_ids.
MergeVideos_NoFilter(channel_cache, channel_url, fetch_only_new, new_videos) ==
    IF fetch_only_new /\ channel_url \in DOMAIN channel_cache
    THEN channel_cache[channel_url].videos \o new_videos
    ELSE new_videos

\* The merge taken whenever the key is cached, fetch_only_new or not.
MergeVideos_AlwaysMerge(channel_cache, channel_url, fetch_only_new, new_videos) ==
    IF channel_url \in DOMAIN channel_cache
    THEN LET existing_videos == channel_cache[channel_url].videos
             existing_ids == {v.id : v \in Range(existing_videos)}
             NotExisting(v) == v.id \notin existing_ids
         IN  existing_videos \o SelectSeq(new_videos, NotExisting)
    ELSE new_videos

\* lines 107-115
MergeVideos(channel_cache, channel_url, fetch_only_new, new_videos) ==
    IF fetch_only_new /\ channel_url \in DOMAIN channel_cache
    THEN LET existing_videos == channel_cache[channel_url].videos
             existing_ids == {v.id : v \in Range(existing_videos)}
             NotExisting(v) == v.id \notin existing_ids
         IN  existing_videos \o SelectSeq(new_videos, NotExisting)
    ELSE new_videos

\* A store that holds the fetched channel only, in place of the loaded store
\* with the channel's entry set.
PutEntry_OnlyKey(channel_cache, channel_url, videos, now) ==
    [k \in {channel_url} |-> [last_updated |-> now, videos |-> videos]]

\* setdefault in place of assignment: an entry the store has is kept.
PutEntry_KeepsOld(channel_cache, channel_url, videos, now) ==
    [k \in DOMAIN channel_cache \cup {channel_url} |->
        IF k \in DOMAIN channel_cache
        THEN channel_cache[k]
        ELSE [last_updated |-> now, videos |-> videos]]

\* lines 118-121
PutEntry(channel_cache, channel_url, videos, now) ==
    [k \in DOMAIN channel_cache \cup {channel_url} |->
        IF k = channel_url
        THEN [last_updated |-> now, videos |-> videos]
        ELSE channel_cache[k]]

\* lines 122-126: the file afterwards
SaveCache(f, channel_cache, outcome) ==
    CASE outcome = "ok"        -> OkFile(channel_cache)
      [] outcome = "open_fail" -> f
      [] outcome = "dump_fail" -> CorruptFile

\* lines 67 and 72: "channel_url in channel_cache" is evaluated outside any
\* try, after "fetch_only_new and" (67) and after "not force_update and not
\* fetch_only_new and" (72); on None it raises TypeError.
MembershipRaises(f, force_update, fetch_only_new) ==
    f.state = "null" /\ (fetch_only_new \/ ~force_update)

\* line 125: "except Exception" keeps a failed write inside the call
SaveRaises(outcome) == FALSE

\* lines 56-133, one call from the file f: the file afterwards, the returned
\* list, whether extract_info was called and with which 'dateafter', whether
\* a save was attempted, whether an exception left the call.
Call(f, channel_url, limit, force_update, fetch_only_new, results, outcome, now) ==
    LET channel_cache == LoadCache(f)
        latest_date == LatestDate(channel_cache, channel_url, fetch_only_new)
        dateafter == DateAfter(fetch_only_new, latest_date)
    IN  IF LoadRaises(f)
        THEN [file |-> f, ret |-> <<>>,
              fetched |-> FALSE, dateafter |-> {}, wrote |-> FALSE,
              raised |-> TRUE]
        ELSE IF MembershipRaises(f, force_update, fetch_only_new)
        THEN [file |-> f, ret |-> <<>>,
              fetched |-> FALSE, dateafter |-> {}, wrote |-> FALSE,
              raised |-> TRUE]
        ELSE IF f.state = "null"
        \* force_update alone: the fetch is made; line 118 assigns into None,
        \* the TypeError is caught at line 131 and [] is returned
        THEN [file |-> f, ret |-> <<>>,
              fetched |-> TRUE, dateafter |-> {}, wrote |-> FALSE,
              raised |-> FALSE]
        ELSE IF CacheHit(channel_cache, channel_url, force_update, fetch_only_new)
        THEN [file |-> f,
              ret |-> Truncate(channel_cache[channel_url].videos, limit),
              fetched |-> FALSE, dateafter |-> {}, wrote |-> FALSE,
              raised |-> FALSE]
        ELSE IF ~results.ok
        THEN [file |-> f, ret |-> <<>>,
              fetched |-> TRUE, dateafter |-> dateafter, wrote |-> FALSE,
              raised |-> FALSE]
        ELSE LET videos == MergeVideos(channel_cache, channel_url, fetch_only_new,
                                       NewVideos(results.entries))
                 updated == PutEntry(channel_cache, channel_url, videos, now)
             IN  [file |-> SaveCache(f, updated, outcome),
                  ret |-> IF SaveRaises(outcome) THEN <<>> ELSE Truncate(videos, limit),
                  fetched |-> TRUE, dateafter |-> dateafter, wrote |-> TRUE,
                  raised |-> SaveRaises(outcome)]

\* ------------------------------------------------------------- the machine
NoCall ==
    [called |-> FALSE, channel_url |-> 1, limit |-> 0,
     force_update |-> FALSE, fetch_only_new |-> FALSE,
     results |-> FetchFailure, outcome |-> "ok", now |-> 1,
     before |-> MissingFile,
     ret |-> <<>>, fetched |-> FALSE, dateafter |-> {}, wrote |-> FALSE,
     raised |-> FALSE]

\* An invocation that shares the cache file with others: where it is (start,
\* loaded, fetched, done), its arguments, the channel_cache it loaded, the
\* videos it saves, whether its write succeeded.
NotStarted ==
    [pc |-> "start", channel_url |-> 1,
     force_update |-> FALSE, fetch_only_new |-> FALSE,
     channel_cache |-> EmptyCache, videos |-> <<>>, wrote_ok |-> FALSE]

Procs == 1..MaxCallers

\* serial: the callers run load-merge-write as a critical section; lock: the
\* invocation inside it (0: none).
NoCallers(serial) ==
    [serial |-> serial, lock |-> 0, inv |-> [p \in Procs |-> NotStarted]]

Init ==
    /\ file = MissingFile
    /\ last = NoCall
    /\ callers = NoCallers(FALSE)
    /\ NoTranscripts

\* The clock is read for the entry that is saved; a failed write leaves no
\* trace of it.
SaveAnswers ==
    {<<"ok", t>> : t \in Times} \cup {<<o, 1>> : o \in WriteOutcomes \ {"ok"}}

\* The environment's answers a call consumes: none on the cache-hit path, the
\* provider's on a fetch, the file system's and the clock's on a save.
Answers(f, channel_url, force_update, fetch_only_new) ==
    IF CacheHit(LoadCache(f), channel_url, force_update, fetch_only_new)
    THEN {<<FetchFailure, "ok", 1>>}
    ELSE {<<FetchFailure, "ok", 1>>} \cup
         {<<r, a[1], a[2]>> : r \in Results(channel_url) \ {FetchFailure},
                              a \in SaveAnswers}

GetChannelVideos(channel_url, limit, force_update, fetch_only_new) ==
    /\ ~last.called
    /\ \E a \in Answers(file, channel_url, force_update, fetch_only_new) :
         LET c == Call(file, channel_url, limit, force_update, fetch_only_new,
                       a[1], a[2], a[3])
         IN  /\ file' = c.file
             /\ last' = [called |-> TRUE, channel_url |-> channel_url,
                         limit |-> limit, force_update |-> force_update,
                         fetch_only_new |-> fetch_only_new,
                         results |-> a[1], outcome |-> a[2], now |-> a[3],
                         before |-> file,
                         ret |-> c.ret, fetched |-> c.fetched,
                         dateafter |-> c.dateafter, wrote |-> c.wrote,
                         raised |-> c.raised]
    /\ UNCHANGED callers
    /\ UNCHANGED ytvars

\* The caller has the returned list; the record of the call is dropped and
\* the next call starts from the file as it is now.
Return ==
    /\ last.called
    /\ last' = NoCall
    /\ UNCHANGED <<file, callers>>
    /\ UNCHANGED ytvars

Next ==
    \/ \E channel_url \in Keys, limit \in Limits,
          force_update \in BOOLEAN, fetch_only_new \in BOOLEAN :
           GetChannelVideos(channel_url, limit, force_update, fetch_only_new)
    \/ Return

Spec == Init /\ [][Next]_vars

\* The calls started from any cache file the caller's path may hold: none, one
\* that does not parse, one that parses to something that is no store.
InitAnyFile ==
    /\ file \in {MissingFile, CorruptFile, NullFile}
    /\ last = NoCall
    /\ callers = NoCallers(FALSE)
    /\ NoTranscripts

SpecAnyFile == InitAnyFile /\ [][Next]_vars

\* ------------------------------------------- invocations sharing the file
\* The same call in its three blocking steps (load, lines 56-77; fetch and
\* merge, 93-115; save, 117-126), taken by MaxCallers invocations that share
\* one cache file.  Each invocation is one call with no limit.

\* The caller's serialization: with it, an invocation starts only when no
\* other is between its load and its write.
MayEnter(p) == callers.serial => callers.lock = 0
Enter(p) == IF callers.serial THEN p ELSE 0

Finished(i, videos, wrote_ok) ==
    [i EXCEPT !.pc = "done", !.channel_cache = EmptyCache,
              !.videos = videos, !.wrote_ok = wrote_ok]

\* lines 56-77
LoadStep(p, channel_url, force_update, fetch_only_new) ==
    /\ callers.inv[p].pc = "start"
    /\ MayEnter(p)
    /\ LET channel_cache == LoadCache(file)
           hit == CacheHit(channel_cache, channel_url, force_update, fetch_only_new)
           args == [NotStarted EXCEPT !.channel_url = channel_url,
                                      !.force_update = force_update,
                                      !.fetch_only_new = fetch_only_new]
       IN  callers' =
             [callers EXCEPT
                !.lock = IF hit THEN 0 ELSE Enter(p),
                !.inv[p] = IF hit THEN Finished(args, <<>>, FALSE)
                           ELSE [args EXCEPT !.pc = "loaded",
                                             !.channel_cache = channel_cache]]
    /\ UNCHANGED <<file, last>>
    /\ UNCHANGED ytvars

\* lines 93-115
FetchStep(p) ==
    /\ callers.inv[p].pc = "loaded"
    /\ \E results \in Results(callers.inv[p].channel_url) :
         LET i == callers.inv[p]
         IN  callers' =
               IF ~results.ok
               THEN [callers EXCEPT !.lock = 0,
                                    !.inv[p] = Finished(i, <<>>, FALSE)]
               ELSE [callers EXCEPT
                       !.inv[p] =
                          [i EXCEPT !.pc = "fetched",
                                    !.videos = MergeVideos(i.channel_cache,
                                                  i.channel_url, i.fetch_only_new,
                                                  NewVideos(results.entries))]]
    /\ UNCHANGED <<file, last>>
    /\ UNCHANGED ytvars

\* lines 117-126
SaveStep(p) ==
    /\ callers.inv[p].pc = "fetched"
    /\ \E a \in SaveAnswers :
         LET i == callers.inv[p]
         IN  /\ file' = SaveCache(file,
                                  PutEntry(i.channel_cache, i.channel_url,
                                           i.videos, a[2]),
                                  a[1])
             /\ callers' =
                  [callers EXCEPT
                     !.lock = 0,
                     !.inv[p] = Finished(i, IF a[1] = "ok" THEN i.videos ELSE <<>>,
                                         a[1] = "ok")]
    /\ UNCHANGED last
    /\ UNCHANGED ytvars

InitCallers ==
    /\ file = MissingFile
    /\ last = NoCall
    /\ \E serial \in BOOLEAN : callers = NoCallers(serial)
    /\ NoTranscripts

NextCallers ==
    \E p \in Procs :
        \/ \E channel_url \in Keys, force_update \in BOOLEAN,
              fetch_only_new \in BOOLEAN :
               LoadStep(p, channel_url, force_update, fetch_only_new)
        \/ FetchStep(p)
        \/ SaveStep(p)

SpecCallers == InitCallers /\ [][NextCallers]_vars

\* ------------------------------------------------ transcripts of videos
VideoIds == 1..MaxVideos
\* video_url strings; none is a video id
Urls == (MaxVideos + 1)..(2 * MaxVideos)
IdOf(video_url) == video_url - MaxVideos
\* transcript.text; '' is what a silent recording gives and what
\* yt_transcribe returns on an error
Texts == {EmptyStr} \cup (1..MaxText)

\* ydl.extract_info(video_url, download=False): it raises, or gives an info
\* whose 'id' is the video's or is absent (read as '').
InfoAnswers(video_url) ==
    {[ok |-> FALSE, id |-> EmptyStr],
     [ok |-> TRUE, id |-> EmptyStr],
     [ok |-> TRUE, id |-> IdOf(video_url)]}

\* The download and the transcription: one of them raises (text: "raised"),
\* or the text comes back.
Raised == MaxText + 1
TranscriptAnswers == Texts \cup {Raised}

\* youtube.py 150-157 and yt_tools.py 71-79: a missing file is not opened,
\* a file that does not parse leaves {}
LoadTranscriptsCache(f) == IF f.state = "ok" THEN f.content ELSE EmptyCache

\* transcripts_cache[video_id] = transcript.text
SetItem(d, key, value) ==
    [k \in DOMAIN d \cup {key} |-> IF k = key THEN value ELSE d[k]]

\* youtube.py 208-212 and yt_tools.py 103-104: open(.., 'w') truncates the
\* file before json.dump writes it
DumpJson(f, d, outcome) ==
    CASE outcome = "ok"        -> OkFile(d)
      [] outcome = "open_fail" -> f
      [] outcome = "dump_fail" -> CorruptFile

\* get_video_info, lines 150-221.  cleanup_ok: os.remove (line 216) succeeds.
VideoInfo(f, video_url, download_transcript, info, text, outcome, cleanup_ok) ==
    LET transcripts_cache == LoadTranscriptsCache(f)
        video_id == info.id
    IN  IF ~info.ok
        THEN [file |-> f, ret |-> EmptyDict, downloads |-> <<>>,
              transcribed |-> {}, wrote |-> FALSE]
        ELSE IF ~download_transcript
        THEN [file |-> f, ret |-> ResultDict(video_id, EmptyStr),
              downloads |-> <<>>, transcribed |-> {}, wrote |-> FALSE]
        ELSE IF video_id \in DOMAIN transcripts_cache
        THEN [file |-> f,
              ret |-> ResultDict(video_id, transcripts_cache[video_id]),
              downloads |-> <<>>, transcribed |-> {}, wrote |-> FALSE]
        ELSE IF text = Raised
        THEN [file |-> f, ret |-> EmptyDict, downloads |-> <<video_url>>,
              transcribed |-> {}, wrote |-> FALSE]
        ELSE [file |-> DumpJson(f, SetItem(transcripts_cache, video_id, text),
                                outcome),
              ret |-> IF cleanup_ok THEN ResultDict(video_id, text)
                      ELSE EmptyDict,
              downloads |-> <<video_url>>, transcribed |-> {video_url},
              wrote |-> TRUE]

GetVideoInfo(video_url, download_transcript) ==
    /\ ~tlast.called
    /\ \E info \in InfoAnswers(video_url), text \in TranscriptAnswers,
          outcome \in WriteOutcomes, cleanup_ok \in BOOLEAN :
          LET c == VideoInfo(transcripts_cache_file, video_url,
                             download_transcript, info, text, outcome,
                             cleanup_ok)
          IN  /\ transcripts_cache_file' = c.file
              /\ tlast' = [called |-> TRUE, op |-> "get_video_info",
                           video_url |-> video_url,
                           download_transcript |-> download_transcript,
                           values_list |-> <<>>,
                           before |-> transcripts_cache_file,
                           info |-> info,
                           text |-> IF c.downloads = <<>> THEN EmptyStr
                                    ELSE text,
                           outcome |-> IF c.wrote THEN outcome ELSE "ok",
                           ret |-> c.ret, downloads |-> c.downloads,
                           transcribed |-> c.transcribed,
                           wrote |-> c.wrote, raised |-> FALSE]
    /\ UNCHANGED <<file, last, callers, transcriptions_file>>

\* What one url of url_set meets in _summarize: extract_info raises (line
\* 87); yt_get returns None; yt_transcribe returns a text, '' on an error.
UrlAnswers ==
    {[info_ok |-> FALSE, path_ok |-> FALSE, text |-> EmptyStr],
     [info_ok |-> TRUE, path_ok |-> FALSE, text |-> EmptyStr]}
        \cup {[info_ok |-> TRUE, path_ok |-> TRUE, text |-> t] : t \in Texts}

\* The orders in which a set can be iterated.
Orders(S) ==
    {o \in SeqsUpTo(S, Cardinality(S)) :
        Len(o) = Cardinality(S) /\ Range(o) = S}

\* yt_tools.py 81-101, over the urls in the order the set gives them.
\* downloads: the urls handed to yt_get; transcribed: those handed to
\* yt_transcribe.
RECURSIVE SummarizeLoop(_, _, _, _, _)
SummarizeLoop(order, transcriptions, answers, downloads, transcribed) ==
    IF order = <<>>
    THEN [transcriptions |-> transcriptions, downloads |-> downloads,
          transcribed |-> transcribed]
    ELSE LET video_url == Head(order)
             a == answers[video_url]
         IN  IF ~a.info_ok \/ video_url \in DOMAIN transcriptions
             THEN SummarizeLoop(Tail(order), transcriptions, answers,
                                downloads, transcribed)
             ELSE IF ~a.path_ok
             THEN SummarizeLoop(Tail(order), transcriptions, answers,
                                Append(downloads, video_url), transcribed)
             ELSE SummarizeLoop(Tail(order),
                                SetItem(transcriptions, video_url, a.text),
                                answers, Append(downloads, video_url),
                                transcribed \cup {video_url})

\* CustomYTTranscribeTool._summarize, yt_tools.py 63-106: values_list is
\* url_csv.split(","); the cache is loaded from "transcripts_cache.json",
\* the result is written to "transcriptions.json" outside any try.
Summarize(values_list) ==
    /\ ~tlast.called
    /\ LET url_set == Range(values_list)
       IN  \E order \in Orders(url_set), answers \in [url_set -> UrlAnswers],
              outcome \in WriteOutcomes :
              LET loaded == LoadTranscriptsCache(transcripts_cache_file)
                  done == SummarizeLoop(order, loaded, answers, <<>>, {})
              IN  /\ transcriptions_file' =
                         DumpJson(transcriptions_file, done.transcriptions,
                                  outcome)
                  /\ tlast' = [called |-> TRUE, op |-> "_summarize",
                               video_url |-> 0,
                               download_transcript |-> FALSE,
                               values_list |-> values_list,
                               before |-> transcripts_cache_file,
                               info |-> [ok |-> FALSE, id |-> EmptyStr],
                               text |-> EmptyStr,
                               outcome |-> outcome,
                               ret |-> EmptyDict,
                               downloads |-> done.downloads,
                               transcribed |-> done.transcribed,
                               wrote |-> TRUE, raised |-> outcome # "ok"]
    /\ UNCHANGED <<file, last, callers, transcripts_cache_file>>

\* The caller has the result; the next call starts from the files as they are.
ReturnTranscript ==
    /\ tlast.called
    /\ tlast' = NoTranscriptCall
    /\ UNCHANGED <<file, last, callers,
                   transcripts_cache_file, transcriptions_file>>

NextTranscripts ==
    \/ \E video_url \in Urls, download_transcript \in BOOLEAN :
           GetVideoInfo(video_url, download_transcript)
    \/ \E values_list \in SeqsUpTo(Urls, MaxCsv) \ {<<>>} :
           Summarize(values_list)
    \/ ReturnTranscript

SpecTranscripts == Init /\ [][NextTranscripts]_vars

\* ------------------------------------------------- vocabulary of the claims
\* The store a reader of the file finds, and the list it holds for a key.
StoreOf(f) == IF f.state = "ok" THEN f.content ELSE EmptyCache
HasEntry(f, k) == k \in DOMAIN StoreOf(f)
Stored(f, k) == IF HasEntry(f, k) THEN StoreOf(f)[k].videos ELSE <<>>

\* The first k elements of s.
Take(s, k) == [i \in 1..Min(k, Len(s)) |-> s[i]]
UpTo(s, limit) == IF limit > 0 THEN Take(s, limit) ELSE s

NoDupIds(s) == \A i, j \in 1..Len(s) : s[i].id = s[j].id => i = j

\* s occurs in t, in order.
RECURSIVE IsSubseq(_, _)
IsSubseq(s, t) ==
    IF s = <<>> THEN TRUE
    ELSE IF t = <<>> THEN FALSE
    ELSE IF Head(s) = Head(t) THEN IsSubseq(Tail(s), Tail(t))
    ELSE IsSubseq(s, Tail(t))

\* The provider's list as video records, in provider order.
FetchedList(entries) ==
    [i \in 1..Len(entries) |->
        [id |-> entries[i].id,
         upload_date |-> IF "upload_date" \in DOMAIN entries[i]
                         THEN entries[i].upload_date ELSE EmptyStr]]

\* prior followed by the records of fresh whose id prior does not have.
RECURSIVE FreshOnly(_, _)
FreshOnly(prior, fresh) ==
    IF fresh = <<>> THEN <<>>
    ELSE IF \E i \in 1..Len(prior) : prior[i].id = Head(fresh).id
    THEN FreshOnly(prior, Tail(fresh))
    ELSE <<Head(fresh)>> \o FreshOnly(prior, Tail(fresh))

FetchSucceeded == last.called /\ last.fetched /\ last.results.ok
IncrementalMerge == last.fetch_only_new /\ HasEntry(last.before, last.channel_url)

\* ------------------------------------------------------------------ claims

\* C1 (as claimed): the list persisted for every channel key holds no two
\* records with the same id, whatever the provider returned.
C1_DedupInvariant ==
    \A k \in DOMAIN StoreOf(file) : NoDupIds(Stored(file, k))

\* C2 (as claimed): after a call with fetch_only_new = true, every record
\* persisted for the channel before the call is still persisted, unchanged
\* and in the same relative order.
C2_AppendOnly ==
    (last.called /\ last.fetch_only_new)
        => IsSubseq(Stored(last.before, last.channel_url),
                    Stored(file, last.channel_url))

\* C3 (as claimed): when the fetch fails or returns an empty entries list,
\* the call returns the empty list and the file is what it was.
C3_FailedFetchKeepsStore ==
    (last.called /\ last.fetched
        /\ (~last.results.ok \/ last.results.entries = <<>>))
        => (last.ret = <<>> /\ file = last.before)

\* C4: with force_update = false, fetch_only_new = false and the channel key
\* in the store, the call fetches nothing, writes nothing, leaves the file as
\* it was and returns the cached list, cut to limit if one is given; the same
\* call made again returns the same list, again without a fetch.
C4_WarmCacheIdempotent ==
    (last.called /\ ~last.force_update /\ ~last.fetch_only_new
        /\ HasEntry(last.before, last.channel_url))
        => /\ ~last.fetched
           /\ ~last.wrote
           /\ ~last.raised
           /\ file = last.before
           /\ last.ret = UpTo(Stored(last.before, last.channel_url), last.limit)
           /\ \A r \in Results(last.channel_url), a \in SaveAnswers :
                 LET again == Call(file, last.channel_url, last.limit,
                                   FALSE, FALSE, r, a[1], a[2])
                 IN  ~again.fetched /\ again.ret = last.ret /\ again.file = file

\* C4 witness: a warm call whose limit cuts the cached list.
C4_Witness ==
    /\ last.called /\ ~last.force_update /\ ~last.fetch_only_new
    /\ HasEntry(last.before, last.channel_url)
    /\ last.limit > 0
    /\ Len(Stored(last.before, last.channel_url)) > last.limit
    /\ Len(last.ret) = last.limit

\* C5 (as claimed): after a fetch_only_new call on a key with a prior entry
\* and a successful fetch, the persisted list is the prior list followed by
\* the fetched records whose id the prior list does not have.
C5_MergePersisted ==
    (FetchSucceeded /\ IncrementalMerge)
        => Stored(file, last.channel_url)
             = Stored(last.before, last.channel_url)
                 \o FreshOnly(Stored(last.before, last.channel_url),
                              FetchedList(last.results.entries))

\* C5 (amended): the same, when the cache file is written; and the list the
\* call returns is that list, cut to limit if one is given, written or not.
C5_MergePersistedWhenWritten ==
    (FetchSucceeded /\ IncrementalMerge)
        => LET merged == Stored(last.before, last.channel_url)
                           \o FreshOnly(Stored(last.before, last.channel_url),
                                        FetchedList(last.results.entries))
           IN  /\ last.outcome = "ok"
                    => (HasEntry(file, last.channel_url)
                        /\ Stored(file, last.channel_url) = merged)
               /\ last.ret = UpTo(merged, last.limit)

\* C5 witness: the merge drops a fetched record the cache has and appends one
\* it has not, after it, and the file is written.
C5_Witness ==
    /\ FetchSucceeded /\ IncrementalMerge /\ last.outcome = "ok"
    /\ Len(last.results.entries) = 2
    /\ Len(Stored(last.before, last.channel_url)) >= 1
    /\ Len(Stored(file, last.channel_url))
         = Len(Stored(last.before, last.channel_url)) + 1
    /\ \E i \in 1..Len(Stored(last.before, last.channel_url)) :
         Stored(last.before, last.channel_url)[i].id = last.results.entries[2].id

\* The call of the record made without a limit, from the same file and with
\* the same answers of the environment.
Unlimited ==
    Call(last.before, last.channel_url, 0, last.force_update,
         last.fetch_only_new, last.results, last.outcome, last.now)

\* C6: with a positive limit k and an untruncated result of at least k
\* records, the call returns the first k records of the untruncated list,
\* and the file afterwards is the file the call without a limit leaves, on
\* the cache-hit path and on the fetch path.
C6_Truncation ==
    (last.called /\ last.limit > 0)
        => /\ Len(Unlimited.ret) >= last.limit
                => last.ret = Take(Unlimited.ret, last.limit)
           /\ file = Unlimited.file
           /\ Unlimited.ret
                = IF ~last.fetched THEN Stored(last.before, last.channel_url)
                  ELSE IF ~last.results.ok THEN <<>>
                  ELSE IF IncrementalMerge
                  THEN Stored(last.before, last.channel_url)
                         \o FreshOnly(Stored(last.before, last.channel_url),
                                      FetchedList(last.results.entries))
                  ELSE FetchedList(last.results.entries)

\* C6 witness: a fetch whose merged list is longer than the limit; the whole
\* list is persisted and its first records are returned.
C6_Witness ==
    /\ FetchSucceeded /\ last.outcome = "ok" /\ last.limit > 0
    /\ Len(Stored(file, last.channel_url)) > last.limit
    /\ Len(last.ret) = last.limit

\* C7 (as claimed): a call deletes no entry: every key persisted before the
\* call is persisted after it, and the entries of the other keys are what
\* they were.
C7_NoEntryDeleted ==
    last.called
        => \A k \in DOMAIN StoreOf(last.before) :
              /\ HasEntry(file, k)
              /\ k # last.channel_url => StoreOf(file)[k] = StoreOf(last.before)[k]

\* C8 (as claimed): after a successful fetch that is not an incremental
\* merge, the entry persisted for the key is the fetched list in provider
\* order, and without a limit the returned list is the persisted list.
C8_FullFetchReplaces ==
    (FetchSucceeded /\ ~IncrementalMerge)
        => /\ HasEntry(file, last.channel_url)
           /\ Stored(file, last.channel_url) = FetchedList(last.results.entries)
           /\ last.limit = 0 => last.ret = Stored(file, last.channel_url)

\* C8 (amended): the same, when the cache file is written; written or not,
\* the list returned without a limit is the fetched list.
C8_FullFetchReplacesWhenWritten ==
    (FetchSucceeded /\ ~IncrementalMerge)
        => /\ last.outcome = "ok"
                => /\ HasEntry(file, last.channel_url)
                   /\ Stored(file, last.channel_url)
                        = FetchedList(last.results.entries)
                   /\ StoreOf(file)[last.channel_url].last_updated = last.now
           /\ last.limit = 0 => last.ret = FetchedList(last.results.entries)

\* C8 witness: a force update replaces a cached list by a different fetched
\* list.
C8_Witness ==
    /\ FetchSucceeded /\ last.force_update /\ ~last.fetch_only_new
    /\ last.outcome = "ok" /\ last.limit = 0
    /\ Len(Stored(last.before, last.channel_url)) = 1
    /\ Len(last.results.entries) = 1
    /\ last.results.entries[1].id # Stored(last.before, last.channel_url)[1].id
    /\ Len(Stored(file, last.channel_url)) = 1

\* C9: when the cache file is missing or does not parse, the call goes on
\* as with an empty store: no cache hit, no date filter, a remote fetch, no
\* exception; what it fetches is returned and, when the file is written, is
\* the only entry of the store.
C9_UnreadableCache ==
    (last.called /\ last.before.state # "ok")
        => /\ ~last.raised
           /\ last.fetched
           /\ last.dateafter = {}
           /\ last.results.ok
                => /\ last.ret = UpTo(FetchedList(last.results.entries), last.limit)
                   /\ last.outcome = "ok"
                        => /\ DOMAIN StoreOf(file) = {last.channel_url}
                           /\ Stored(file, last.channel_url)
                                = FetchedList(last.results.entries)

\* C9 witness: a call with both flags false starts from a file that does not
\* parse, fetches and writes a store.
C9_Witness ==
    /\ last.called /\ last.before.state = "corrupt"
    /\ ~last.force_update /\ ~last.fetch_only_new
    /\ last.results.ok /\ last.results.entries # <<>>
    /\ file.state = "ok"

\* C10 (as claimed): when the save fails after a successful fetch, the call
\* returns the list it returns when the save succeeds, raises nothing, and
\* the file keeps its previous content.
C10_WriteFailureNonFatal ==
    (FetchSucceeded /\ last.wrote /\ last.outcome # "ok")
        => /\ last.ret = Call(last.before, last.channel_url, last.limit,
                              last.force_update, last.fetch_only_new,
                              last.results, "ok", last.now).ret
           /\ ~last.raised
           /\ file = last.before

\* The largest upload_date of a non-empty list of records.
LargestDate(s) ==
    CHOOSE d \in {s[i].upload_date : i \in 1..Len(s)} :
        \A i \in 1..Len(s) : s[i].upload_date <= d

CachedNonEmpty ==
    /\ last.fetch_only_new
    /\ HasEntry(last.before, last.channel_url)
    /\ Stored(last.before, last.channel_url) # <<>>

\* C11 (as claimed): a fetch made with fetch_only_new = true on a key cached
\* with a non-empty list carries the largest cached upload_date as its date
\* filter; every other fetch carries no date filter.
C11_DateFilter ==
    (last.called /\ last.fetched)
        => last.dateafter
             = IF CachedNonEmpty
               THEN {LargestDate(Stored(last.before, last.channel_url))}
               ELSE {}

\* C11 (amended): the filter is the largest cached upload_date when that is
\* not the empty string; when every cached record has the empty upload_date,
\* and in every other case, the fetch carries no date filter.
C11_DateFilterWhenDated ==
    (last.called /\ last.fetched)
        => last.dateafter
             = IF CachedNonEmpty
                  /\ LargestDate(Stored(last.before, last.channel_url)) # EmptyStr
               THEN {LargestDate(Stored(last.before, last.channel_url))}
               ELSE {}

\* C11 witness: an incremental fetch on a cached list whose largest
\* upload_date is not that of its last record.
C11_Witness ==
    /\ last.called /\ last.fetched /\ CachedNonEmpty
    /\ LET cached == Stored(last.before, last.channel_url)
       IN  /\ cached[Len(cached)].upload_date < LargestDate(cached)
           /\ last.dateafter = {LargestDate(cached)}

\* C12 (as claimed): whatever the cache file holds (nothing, text that does
\* not parse, text that parses), whatever the provider and the write do, the
\* call returns a list and no exception leaves it.
C12_NoErrorFatal ==
    last.called => ~last.raised

\* An invocation whose write succeeded, and what it wrote.
WroteOk(p) == callers.inv[p].pc = "done" /\ callers.inv[p].wrote_ok

\* Lost update: the store the file holds lacks the entry, or videos, an
\* invocation wrote successfully, and no other invocation replaced that entry
\* wholesale (a write for the same key with fetch_only_new = false).  A file
\* that a failed write left unparseable holds no store (see C10).
LostUpdate ==
    /\ file.state = "ok"
    /\ \E p \in Procs :
         /\ WroteOk(p)
         /\ ~(/\ HasEntry(file, callers.inv[p].channel_url)
              /\ IsSubseq(callers.inv[p].videos,
                          Stored(file, callers.inv[p].channel_url)))
         /\ ~\E q \in Procs \ {p} :
               /\ WroteOk(q)
               /\ callers.inv[q].channel_url = callers.inv[p].channel_url
               /\ ~callers.inv[q].fetch_only_new

ListToSave ==
    IF IncrementalMerge
    THEN Stored(last.before, last.channel_url)
           \o FreshOnly(Stored(last.before, last.channel_url),
                        FetchedList(last.results.entries))
    ELSE FetchedList(last.results.entries)

\* What the environment may answer to the call that follows, per key: the
\* fetch fails or yields at most one entry, the write ends in any way.
AnswersFor ==
    [k \in Keys |-> {r \in Results(k) : Len(r.entries) <= 1} \X SaveAnswers]

\* C14: after a call that fetched successfully and persisted an entry for
\* the key, the file holds the whole merged or fetched list, whatever limit
\* that call had, and the next call for the key with both flags false and
\* no limit returns exactly that list without a fetch.
C14_ReadYourWrites ==
    (FetchSucceeded /\ last.outcome = "ok")
        => /\ HasEntry(file, last.channel_url)
           /\ Stored(file, last.channel_url) = ListToSave
           /\ \A e \in AnswersFor[last.channel_url] :
                 LET next == Call(file, last.channel_url, 0, FALSE, FALSE,
                                  e[1], e[2][1], e[2][2])
                 IN  /\ ~next.fetched
                     /\ ~next.raised
                     /\ next.ret = ListToSave
                     /\ next.file = file

\* C14 witness: the earlier call returned a list cut by its limit and
\* replaced a cached list by a longer fetched one.
C14_Witness ==
    /\ FetchSucceeded /\ last.outcome = "ok"
    /\ HasEntry(last.before, last.channel_url)
    /\ last.limit > 0
    /\ Len(last.ret) = last.limit
    /\ Len(Stored(file, last.channel_url)) > last.limit
    /\ Stored(file, last.channel_url) # Stored(last.before, last.channel_url)

\* C15 (as claimed): a call with fetch_only_new = true always fetches; with
\* no prior entry it fetches without a date filter and the fetched list is
\* persisted verbatim; when the fetch fails it returns the empty list.
C15_FetchOnlyNewAlwaysFetches ==
    (last.called /\ last.fetch_only_new)
        => /\ last.fetched
           /\ ~HasEntry(last.before, last.channel_url)
                => /\ last.dateafter = {}
                   /\ last.results.ok
                        => /\ HasEntry(file, last.channel_url)
                           /\ Stored(file, last.channel_url)
                                = FetchedList(last.results.entries)
           /\ ~last.results.ok => last.ret = <<>>

\* C15 (amended): the same, the fetched list being persisted verbatim when
\* the cache file is written and returned (cut to limit) written or not; a
\* failed fetch also leaves the file as it was.
C15_FetchOnlyNewWhenWritten ==
    (last.called /\ last.fetch_only_new)
        => /\ last.fetched
           /\ ~HasEntry(last.before, last.channel_url)
                => /\ last.dateafter = {}
                   /\ last.results.ok
                        => /\ last.ret = UpTo(FetchedList(last.results.entries),
                                               last.limit)
                           /\ last.outcome = "ok"
                                => /\ HasEntry(file, last.channel_url)
                                   /\ Stored(file, last.channel_url)
                                        = FetchedList(last.results.entries)
           /\ ~last.results.ok => (last.ret = <<>> /\ file = last.before)

\* C15 witness: fetch_only_new on a key cached with videos, force_update
\* false; the fetch is made, fails, and the empty list is returned.
C15_Witness ==
    /\ last.called /\ last.fetch_only_new /\ ~last.force_update
    /\ Stored(last.before, last.channel_url) # <<>>
    /\ last.fetched /\ ~last.results.ok
    /\ last.ret = <<>>

\* The urls of a call's downloads are pairwise different.
NoRepeat(downloads) ==
    \A i, j \in 1..Len(downloads) : i # j => downloads[i] # downloads[j]

\* C16: get_video_info with download_transcript = true: a video id that is
\* a key of the loaded transcript cache gets the cached text with no
\* download, no transcription and no write; otherwise, after a successful
\* transcription, the persisted cache maps the id to the new text and keeps
\* every loaded entry unchanged.
C16_TranscriptCache ==
    (/\ tlast.called /\ tlast.op = "get_video_info"
     /\ tlast.download_transcript /\ tlast.info.ok)
        => LET loaded == LoadTranscriptsCache(tlast.before)
               persisted == LoadTranscriptsCache(transcripts_cache_file)
               video_id == tlast.info.id
           IN  IF video_id \in DOMAIN loaded
               THEN /\ tlast.ret = ResultDict(video_id, loaded[video_id])
                    /\ tlast.downloads = <<>>
                    /\ tlast.transcribed = {}
                    /\ ~tlast.wrote
                    /\ transcripts_cache_file = tlast.before
               ELSE tlast.transcribed # {}
                        => /\ video_id \in DOMAIN persisted
                           /\ persisted[video_id] = tlast.text
                           /\ \A k \in DOMAIN loaded :
                                 /\ k \in DOMAIN persisted
                                 /\ persisted[k] = loaded[k]

\* C16, the cases the write does not reach: the cached text is returned
\* untouched, and a write that succeeds holds the new text and the loaded
\* entries.
C16_TranscriptCacheWhenWritten ==
    (/\ tlast.called /\ tlast.op = "get_video_info"
     /\ tlast.download_transcript /\ tlast.info.ok)
        => LET loaded == LoadTranscriptsCache(tlast.before)
               persisted == LoadTranscriptsCache(transcripts_cache_file)
               video_id == tlast.info.id
           IN  IF video_id \in DOMAIN loaded
               THEN /\ tlast.ret = ResultDict(video_id, loaded[video_id])
                    /\ tlast.downloads = <<>>
                    /\ ~tlast.wrote
                    /\ transcripts_cache_file = tlast.before
               ELSE (tlast.transcribed # {} /\ tlast.outcome = "ok")
                        => /\ video_id \in DOMAIN persisted
                           /\ persisted[video_id] = tlast.text
                           /\ \A k \in DOMAIN loaded :
                                 /\ k \in DOMAIN persisted
                                 /\ persisted[k] = loaded[k]

\* C17: _summarize downloads each distinct url of its input at most once
\* per call, never downloads a url that is in the cache it loaded, and a
\* url it transcribed is in the cache a later call loads.
C17_SummarizeCaches ==
    (tlast.called /\ tlast.op = "_summarize")
        => /\ NoRepeat(tlast.downloads)
           /\ \A u \in Range(tlast.downloads) :
                 u \notin DOMAIN LoadTranscriptsCache(tlast.before)
           /\ \A u \in tlast.transcribed :
                 u \in DOMAIN LoadTranscriptsCache(transcripts_cache_file)

\* C17, what holds within one call: no url is downloaded twice and none
\* that the loaded cache has.
C17_OncePerCall ==
    (tlast.called /\ tlast.op = "_summarize")
        => /\ NoRepeat(tlast.downloads)
           /\ \A u \in Range(tlast.downloads) :
                 u \notin DOMAIN LoadTranscriptsCache(tlast.before)

====
